---------------------------- MODULE Spec2Model ----------------------------
(***************************************************************************)
(* Model of the market-participants order-book analyser (src/src/lib.rs):  *)
(* the App state (order books, current symbol, message history, rolling    *)
(* analysis window, flush timer, database) and its operations              *)
(* update_orders, analyze_market and next_symbol.                          *)
(*                                                                         *)
(* Representation.                                                         *)
(*  - Symbol strings are only compared and upper-cased: they are atoms.    *)
(*  - Price and quantity strings are parsed by the code, so they are       *)
(*    sequences of one-character strings and ParseF64 parses them.         *)
(*  - An f64 is its exact decimal value in units of 10^-FracDigits.  The   *)
(*    input strings carry at most FracDigits fraction digits and no        *)
(*    exponent, "inf" or "nan" spelling, and on them every f64 test of the *)
(*    code (fract, trunc, %, comparison) has the verdict of the exact      *)
(*    computation, except `diff % 0.1`, which is modelled as binary64      *)
(*    computes it (see FmodTenthNonZero).                                  *)
(*  - Instant::now() is the variable now, in whole seconds.                *)
(*                                                                         *)
(* The feed connector (src/src/main.rs: run_websocket, connect_and_stream, *)
(* fetch_initial_snapshot) is the process whose position is pc, with its   *)
(* WebSocketState in state and the mpsc channel to the consumer in         *)
(* channel.                                                                *)
(***************************************************************************)
EXTENDS Integers, Sequences, FiniteSets, TLC

VARIABLES
    order_books,      \* App.order_books: symbol -> OrderBook
    current_symbol,   \* App.current_symbol
    message_history,  \* App.message_history
    last_db_write,    \* App.last_db_write
    analysis_buffer,  \* App.analysis_buffer: symbol -> samples
    db,               \* rows of the market_analysis table, in insertion order
    keys,             \* iteration order of order_books.keys()
    now,              \* the monotonic clock, seconds
    analysis,         \* the MarketAnalysis returned by the last analyze_market
    last_call,        \* the last operation called and its argument
    budget,           \* operations left to explore
    returned,         \* the value returned by the last call of a private helper
    state,            \* run_websocket's WebSocketState
    pc,               \* where the connector task is, and what it is waiting for
    delay,            \* the Duration computed for the connector's last sleep
    channel,          \* the events sent on tx and not yet received from rx
    cycles,           \* the calls of connect_and_stream so far
    emitted,          \* every event sent on tx so far, with its cycle
    consumer,         \* where main's loop is
    applied,          \* every event main's loop has passed to update_orders
    last_flush,       \* when insert_analysis was last invoked, if it ever was
    observed          \* the classifications of the last 5 seconds, with their symbol

\* the connector task and its channel
connector == <<state, pc, delay, channel>>

\* the record of what went through the channel, and main's loop
pipeline == <<cycles, emitted, consumer, applied>>

vars == <<order_books, current_symbol, message_history, last_db_write,
          analysis_buffer, db, keys, now, analysis, last_call, budget,
          returned, connector, pipeline, last_flush, observed>>

\* what is remembered of the classification cycles beside App's own fields
cycle_log == <<last_flush, observed>>

app == <<order_books, current_symbol, message_history, last_db_write,
         analysis_buffer, db>>

-----------------------------------------------------------------------------
(* Bounds of the exploration *)

\* fraction digits carried by a modelled f64
FracDigits == 2
\* operations explored from App::new in Spec
MaxCalls == 3
\* levels on each side of a book drawn in InitClassify
MaxLevels == 2
\* operations explored from each drawn book in SpecClassify
MaxClassifyCalls == 2

\* counted steps of the environment explored in SpecConnector
MaxConnectorEvents == 3
\* operations explored from each drawn book in SpecWindow
MaxWindowCalls == 7
MaxRecordCalls == 8
\* events the connector sends in SpecChannel
MaxEmitted == 34
\* turns of main's loop in SpecChannel
MaxTurns == 2
\* counted steps in SpecConsumer
MaxConsumerEvents == 3
\* presses of the next-symbol key in SpecSwitch
MaxSwitches == 5
\* operations explored from each filled history in SpecHistory
MaxHistoryCalls == 3
\* the most messages a filled history of SpecHistory is short of the limit
MaxHeadroom == 2

-----------------------------------------------------------------------------
(* Strings and numbers *)

SYMBOLS == <<"btcusdt", "ethusdt", "bnbusdt", "xrpusdt">>

\* str::to_uppercase on the symbol strings that occur
to_uppercase(s) ==
    CASE s = "btcusdt" -> "BTCUSDT"
      [] s = "ethusdt" -> "ETHUSDT"
      [] s = "bnbusdt" -> "BNBUSDT"
      [] s = "xrpusdt" -> "XRPUSDT"
      [] s = "unknown" -> "UNKNOWN"
      [] OTHER -> s

Range(s) == {s[i] : i \in DOMAIN s}

RECURSIVE Pow10(_)
Pow10(n) == IF n = 0 THEN 1 ELSE 10 * Pow10(n - 1)

Scale == Pow10(FracDigits)

DigitChars == <<"0", "1", "2", "3", "4", "5", "6", "7", "8", "9">>

IsDigits(s) == \A i \in DOMAIN s : s[i] \in Range(DigitChars)

DigitVal(c) == (CHOOSE i \in DOMAIN DigitChars : DigitChars[i] = c) - 1

RECURSIVE DigitsVal(_)
DigitsVal(s) ==
    IF s = <<>> THEN 0
    ELSE 10 * DigitsVal(SubSeq(s, 1, Len(s) - 1)) + DigitVal(s[Len(s)])

\* the fraction digits of a decimal literal, in units of 10^-FracDigits
FracKept(kept) == DigitsVal(kept) * Pow10(FracDigits - Len(kept))

FracVal(s) == FracKept(SubSeq(s, 1, IF Len(s) < FracDigits THEN Len(s) ELSE FracDigits))

ParseErr == [ok |-> FALSE, val |-> 0]

Unsigned(s) == IF s # <<>> /\ s[1] \in {"-", "+"} THEN Tail(s) ELSE s

Negated(s, mag) == IF s # <<>> /\ s[1] = "-" THEN 0 - mag ELSE mag

\* the place of the first ".", or one past the end
DotAt(body) ==
    IF \E i \in DOMAIN body : body[i] = "."
    THEN CHOOSE i \in DOMAIN body :
            body[i] = "." /\ \A j \in 1..(i - 1) : body[j] # "."
    ELSE Len(body) + 1

ParseParts(s, ip, fp) ==
    IF ~IsDigits(ip) \/ ~IsDigits(fp) \/ Len(ip) + Len(fp) = 0
    THEN ParseErr
    ELSE [ok |-> TRUE, val |-> Negated(s, DigitsVal(ip) * Scale + FracVal(fp))]

ParseSplit(s, body, dot) ==
    ParseParts(s, SubSeq(body, 1, dot - 1), SubSeq(body, dot + 1, Len(body)))

\* str::parse::<f64>() on a decimal literal: [sign] digits [. digits],
\* with at least one digit; anything else is Err
ParseF64(s) == ParseSplit(s, Unsigned(s), DotAt(Unsigned(s)))

\* Result::unwrap_or(0.0)
UnwrapOrZero(parsed) == IF parsed.ok THEN parsed.val ELSE 0

\* .parse::<f64>().unwrap_or(0.0)
ParseOrZero(s) == UnwrapOrZero(ParseF64(s))

Abs(x) == IF x < 0 THEN -x ELSE x

\* f64::trunc and f64::fract
Trunc(x) == IF x >= 0 THEN (x \div Scale) * Scale ELSE 0 - (((0 - x) \div Scale) * Scale)
Fract(x) == x - Trunc(x)

-----------------------------------------------------------------------------
(* serde_json::Value, as far as update_orders looks into it *)

JNull        == [kind |-> "null"]
JStr(s)      == [kind |-> "string", str |-> s]
JArr(items)  == [kind |-> "array", items |-> items]

\* Value::as_str and Value::as_array: Some exactly on that kind
IsStr(v)   == v.kind = "string"
IsArray(v) == v.kind = "array"

\* Value's Index<usize>: Null when v is no array or i is out of range
Idx(v, i) == IF IsArray(v) /\ i + 1 \in DOMAIN v.items THEN v.items[i + 1] ELSE JNull

-----------------------------------------------------------------------------
(* update_orders *)

OrderBookEntry(price, quantity) ==
    [price            |-> price,
     quantity         |-> quantity,
     \* price * quantity, kept as its two factors
     total            |-> <<ParseOrZero(price), ParseOrZero(quantity)>>,
     is_likely_human  |-> FALSE,
     human_indicators |-> <<>>]

\* variant: a level whose price string does not parse is skipped
PushLevelParsedOnly(side, level) ==
    IF IsStr(Idx(level, 0)) /\ IsStr(Idx(level, 1)) /\ ParseF64(Idx(level, 0).str).ok
    THEN Append(side, OrderBookEntry(Idx(level, 0).str, Idx(level, 1).str))
    ELSE side

\* the body of `for bid in bids`: an entry is pushed when both fields are
\* JSON strings, whatever the strings hold
PushLevel(side, level) ==
    IF IsStr(Idx(level, 0)) /\ IsStr(Idx(level, 1))
    THEN Append(side, OrderBookEntry(Idx(level, 0).str, Idx(level, 1).str))
    ELSE side

RECURSIVE PushLevels(_, _)
PushLevels(side, levels) ==
    IF levels = <<>> THEN side
    ELSE PushLevels(PushLevel(side, Head(levels)), Tail(levels))

\* variant: the side is not cleared before it is refilled
NotCleared(side) == side

\* order_book.bids.clear() / order_book.asks.clear()
Cleared(side) == <<>>

\* "Process bids" / "Process asks": the cleared side refilled from the field
ProcessSide(side, field) ==
    IF IsArray(field) THEN PushLevels(Cleared(side), field.items) ELSE Cleared(side)

SortKey(entry) == ParseOrZero(entry.price)

\* f64::partial_cmp, never None on the modelled values
PartialCmp(x, y) == IF x < y THEN "Less" ELSE IF x > y THEN "Greater" ELSE "Equal"

\* variant: the bids closure compares a with b, as the asks closure does
BidOrderingAscending(a, b) == PartialCmp(SortKey(a), SortKey(b))

\* the closure of bids.sort_by: b's key compared with a's
BidOrdering(a, b) == PartialCmp(SortKey(b), SortKey(a))

\* the closure of asks.sort_by: a's key compared with b's
AskOrdering(a, b) == PartialCmp(SortKey(a), SortKey(b))

Ordering(which, a, b) == IF which = "bids" THEN BidOrdering(a, b) ELSE AskOrdering(a, b)

\* slice::sort_by is a stable sort: e goes behind every element that is not
\* Greater than it
RECURSIVE InsertSorted(_, _, _)
InsertSorted(which, sorted, e) ==
    IF sorted = <<>> THEN <<e>>
    ELSE IF Ordering(which, sorted[Len(sorted)], e) = "Greater"
         THEN Append(InsertSorted(which, SubSeq(sorted, 1, Len(sorted) - 1), e),
                     sorted[Len(sorted)])
         ELSE Append(sorted, e)

RECURSIVE SortFrom(_, _, _)
SortFrom(which, sorted, rest) ==
    IF rest = <<>> THEN sorted
    ELSE SortFrom(which, InsertSorted(which, sorted, Head(rest)), Tail(rest))

sort_by(which, side) == SortFrom(which, <<>>, side)

\* the order book after the update, stamped with the time of the call
UpdatedBook(book, result, t) ==
    [book EXCEPT !.bids = sort_by("bids", ProcessSide(book.bids, result.bids)),
                 !.asks = sort_by("asks", ProcessSide(book.asks, result.asks)),
                 !.last_update = t]

HistoryLimit == 10000
HistoryDrain == 5000

\* the message of the best bid, else of the best ask
OrderBookMessage(symbol, entry, side, t) ==
    [timestamp |-> t,
     symbol    |-> symbol,
     is_human  |-> entry.is_likely_human,
     price     |-> entry.price,
     quantity  |-> entry.quantity,
     side      |-> side]

\* variant: the newest messages are the ones drained
DrainedNewest(pushed) ==
    IF Len(pushed) > HistoryLimit
    THEN SubSeq(pushed, 1, Len(pushed) - HistoryDrain)
    ELSE pushed

Drained(pushed) ==
    IF Len(pushed) > HistoryLimit
    THEN SubSeq(pushed, HistoryDrain + 1, Len(pushed))
    ELSE pushed

PushMessage(history, message) == Drained(Append(history, message))

\* "Add to message history": nothing is added for a book left empty
HistoryAfter(history, symbol, book, t) ==
    IF book.bids # <<>>
    THEN PushMessage(history, OrderBookMessage(symbol, book.bids[1], "Bid", t))
    ELSE IF book.asks # <<>>
         THEN PushMessage(history, OrderBookMessage(symbol, book.asks[1], "Ask", t))
         ELSE history

NoKey == ""

\* variant: the symbol is upper-cased before the lookup
BookKeyIgnoringCase(books, symbol) ==
    IF to_uppercase(symbol) \in DOMAIN books THEN to_uppercase(symbol) ELSE NoKey

\* order_books.get_mut(symbol) / order_books.get(symbol): the key that
\* equals symbol, if the map has it
BookKey(books, symbol) == IF symbol \in DOMAIN books THEN symbol ELSE NoKey

\* variant: every book of the store is stamped with the time of the update
ApplyUpdateStampingAll(symbol, book) ==
    /\ order_books' = [s \in DOMAIN order_books |->
                          IF s = symbol THEN book
                          ELSE [order_books[s] EXCEPT !.last_update = now]]
    /\ message_history' = HistoryAfter(message_history, symbol, book, now)

ApplyUpdate(symbol, book) ==
    /\ order_books' = [order_books EXCEPT ![symbol] = book]
    /\ message_history' = HistoryAfter(message_history, symbol, book, now)

UpdateBook(symbol, result) ==
    IF symbol # NoKey
    THEN ApplyUpdate(symbol, UpdatedBook(order_books[symbol], result, now))
    ELSE UNCHANGED <<order_books, message_history>>

update_orders(result) ==
    UpdateBook(IF IsStr(result.symbol)
               THEN BookKey(order_books, result.symbol.str) ELSE NoKey, result)

UpdateOrders(result) ==
    /\ budget > 0
    /\ update_orders(result)
    /\ UNCHANGED <<current_symbol, last_db_write, analysis_buffer, db, keys, now, analysis>>
    /\ UNCHANGED <<returned, connector, pipeline, cycle_log>>
    /\ last_call' = [op |-> "update_orders", arg |-> result]
    /\ budget' = budget - 1

-----------------------------------------------------------------------------
(* analyze_market *)

Chain(book) == book.bids \o book.asks

\* whole_part % m == 0.0
Divides(m, whole) == (Abs(whole) \div Scale) % m = 0

IsRound(decimal_part) ==
    \/ decimal_part = 0
    \/ 2 * decimal_part = Scale
    \/ 4 * decimal_part = Scale

\* variant: only the multiples of 1000 and of 500 are psychological levels
IsPsychologicalFiveHundreds(whole_part) ==
    \/ Divides(1000, whole_part)
    \/ Divides(500, whole_part)

IsPsychological(whole_part) ==
    \/ Divides(1000, whole_part)
    \/ Divides(500, whole_part)
    \/ Divides(100, whole_part)

RoundNumber(price) == IsRound(Fract(price)) \/ IsPsychological(Trunc(price))

\* the (label, verdict) pushed for a level, none when the string fails to parse
Verdict(label, parsed, verdict) == IF parsed.ok THEN << <<label, verdict>> >> ELSE <<>>

RoundNumberOf(order, price) ==
    Verdict(order.price, price, price.ok /\ RoundNumber(price.val))

RECURSIVE RoundNumbersOf(_)
RoundNumbersOf(orders) ==
    IF orders = <<>> THEN <<>>
    ELSE RoundNumberOf(Head(orders), ParseF64(Head(orders).price))
         \o RoundNumbersOf(Tail(orders))

analyze_round_numbers(book) == RoundNumbersOf(Chain(book))

\* variant: a multiple of 5 does not make a size human-like
SizePartsWithoutFives(whole_part, decimal_part) ==
    \/ decimal_part = 0
    \/ 2 * decimal_part = Scale
    \/ 4 * decimal_part = Scale
    \/ whole_part <= 10 * Scale

SizeParts(whole_part, decimal_part) ==
    \/ decimal_part = 0
    \/ 2 * decimal_part = Scale
    \/ 4 * decimal_part = Scale
    \/ whole_part <= 10 * Scale
    \/ Divides(5, whole_part)

HumanLikeSize(quantity) == SizeParts(Trunc(quantity), Fract(quantity))

OrderSizeOf(order, quantity) ==
    Verdict(order.quantity, quantity, quantity.ok /\ HumanLikeSize(quantity.val))

RECURSIVE OrderSizesOf(_)
OrderSizesOf(orders) ==
    IF orders = <<>> THEN <<>>
    ELSE OrderSizeOf(Head(orders), ParseF64(Head(orders).quantity))
         \o OrderSizesOf(Tail(orders))

analyze_order_sizes(book) == OrderSizesOf(Chain(book))

\* diff % 0.1 != 0.0 as binary64 computes it: 0.1 has no exact binary64
\* form, so the remainder is 0.0 only for diff = 0.0 and for a diff that is
\* exactly a power of two times the binary64 nearest 0.1, which no
\* difference of two modelled prices is
FmodTenthNonZero(diff) == diff # 0

SpacingOf(diff) ==
    /\ 100 * diff > Scale
    /\ Fract(diff) # 0
    /\ FmodTenthNonZero(diff)

HumanLikeSpacing(price1, price2) == SpacingOf(Abs(price2 - price1))

\* the (label, verdict) pushed for a window, none unless both prices parse
WindowOf(first, price1, price2) ==
    IF price1.ok /\ price2.ok
    THEN << <<first.price, HumanLikeSpacing(price1.val, price2.val)>> >>
    ELSE <<>>

\* orders.windows(2), from the window that starts at index i
RECURSIVE WindowsFrom(_, _)
WindowsFrom(orders, i) ==
    IF i + 1 > Len(orders) THEN <<>>
    ELSE WindowOf(orders[i], ParseF64(orders[i].price), ParseF64(orders[i + 1].price))
         \o WindowsFrom(orders, i + 1)

analyze_order_placement(book) == WindowsFrom(book.bids, 1) \o WindowsFrom(book.asks, 1)

Min(a, b) == IF a < b THEN a ELSE b

\* round_numbers.iter().zip(order_sizes.iter()).zip(order_placement.iter())
\* mapped to (a.0, [a.1, b.1, c.1]): as long as the shortest of the three
Zip3(a, b, c) ==
    [i \in 1..Min(Len(a), Min(Len(b), Len(c))) |->
        [price |-> a[i][1], indicators |-> <<a[i][2], b[i][2], c[i][2]>>]]

Combined(book) ==
    Zip3(analyze_round_numbers(book), analyze_order_sizes(book),
         analyze_order_placement(book))

\* variant: the count is divided by the two heuristics every level has
HumanScoreOfTwo(indicators) ==
    [num |-> Cardinality({i \in DOMAIN indicators : indicators[i]}), den |-> 2]

\* count of true indicators / indicators.len(), as a fraction
HumanScore(indicators) ==
    [num |-> Cardinality({i \in DOMAIN indicators : indicators[i]}),
     den |-> Len(indicators)]

\* variant: the threshold is 0.7
IsHumanAboveSevenTenths(score) == 10 * score.num > 7 * score.den

\* human_score > 0.6
IsHuman(score) == 10 * score.num > 6 * score.den

HumanPattern(price) == <<"Order at", price, "shows human behavior">>
BotPattern(price)   == <<"Order at", price, "likely automated">>

MarketAnalysis(total, human, bots, humans, scores) ==
    [total_orders        |-> total,
     likely_human_orders |-> human,
     bot_patterns        |-> bots,
     human_patterns      |-> humans,
     confidence_scores   |-> scores]

DefaultAnalysis == MarketAnalysis(0, 0, <<>>, <<>>, <<>>)

\* confidence_scores.insert(price, human_score)
Insert(scores, price, human_score) ==
    [p \in DOMAIN scores \cup {price} |-> IF p = price THEN human_score ELSE scores[p]]

\* one turn of the "Combine analyses" loop
Combine(acc, price, human_score) ==
    [confidence_scores |-> Insert(acc.confidence_scores, price, human_score),
     human_patterns |->
         IF IsHuman(human_score)
         THEN Append(acc.human_patterns, HumanPattern(price))
         ELSE acc.human_patterns,
     bot_patterns |->
         IF IsHuman(human_score)
         THEN acc.bot_patterns
         ELSE Append(acc.bot_patterns, BotPattern(price))]

RECURSIVE CombineLoop(_, _)
CombineLoop(acc, items) ==
    IF items = <<>> THEN acc
    ELSE CombineLoop(Combine(acc, Head(items).price, HumanScore(Head(items).indicators)),
                     Tail(items))

\* likely_human_orders: the scores above 0.6 among confidence_scores.values()
LikelyHuman(scores) == Cardinality({p \in DOMAIN scores : IsHuman(scores[p])})

\* variant: only the bids are counted in total_orders
AnalysisOfBids(book, done) ==
    MarketAnalysis(Len(book.bids),
                   LikelyHuman(done.confidence_scores),
                   done.bot_patterns, done.human_patterns, done.confidence_scores)

Analysis(book, done) ==
    MarketAnalysis(Len(book.bids) + Len(book.asks),
                   LikelyHuman(done.confidence_scores),
                   done.bot_patterns, done.human_patterns, done.confidence_scores)

\* variant: the scores and lists of the last result are carried over
ClassifyCarriedOver(book) ==
    Analysis(book, CombineLoop([confidence_scores |-> analysis.confidence_scores,
                                human_patterns |-> analysis.human_patterns,
                                bot_patterns |-> analysis.bot_patterns], Combined(book)))

\* the MarketAnalysis built for a book
Classify(book) ==
    Analysis(book, CombineLoop([confidence_scores |-> <<>>,
                                human_patterns |-> <<>>,
                                bot_patterns |-> <<>>], Combined(book)))

WindowSecs == 5
FlushSecs == 5

Sample(t, total_orders, human_orders) ==
    [timestamp |-> t, total_orders |-> total_orders, human_orders |-> human_orders]

\* variant: nothing is evicted from the window
RetainEverything(buffer, t) == buffer

\* buffer.retain(|(timestamp, _, _)| timestamp.elapsed() < 5 s)
Retain(buffer, t) == SelectSeq(buffer, LAMBDA e : t - e.timestamp < WindowSecs)

\* analysis_buffer.entry(symbol).or_default()
EntryOrDefault(buffers, symbol) ==
    IF symbol \in DOMAIN buffers THEN buffers[symbol] ELSE <<>>

\* the buffers after the symbol's push and retain, at time t
update_analysis_buffer(buffers, symbol, total_orders, human_orders, t) ==
    [s \in DOMAIN buffers \cup {symbol} |->
        IF s = symbol
        THEN Retain(Append(EntryOrDefault(buffers, symbol),
                           Sample(t, total_orders, human_orders)), t)
        ELSE buffers[s]]

\* variant: the mean is taken over one sample more than the window holds
RECURSIVE SumOfWithOneMore(_, _)
SumOfWithOneMore(buffer, fld) ==
    IF buffer = <<>> THEN 1 ELSE Head(buffer)[fld] + SumOfWithOneMore(Tail(buffer), fld)

RECURSIVE SumOf(_, _)
SumOf(buffer, fld) ==
    IF buffer = <<>> THEN 0 ELSE Head(buffer)[fld] + SumOf(Tail(buffer), fld)

\* Option<(f64, f64)>: the two means as sums over a common count
calculate_average_analysis(buffers, symbol) ==
    IF symbol \in DOMAIN buffers /\ buffers[symbol] # <<>>
    THEN [some      |-> TRUE,
          total_sum |-> SumOf(buffers[symbol], "total_orders"),
          human_sum |-> SumOf(buffers[symbol], "human_orders"),
          count     |-> Len(buffers[symbol])]
    ELSE [some |-> FALSE, total_sum |-> 0, human_sum |-> 0, count |-> 1]

\* variant: the ratio is the quotient whatever the average total
MarketAnalysisRecordUnguarded(symbol, avg, t) ==
    [symbol       |-> symbol,
     timestamp    |-> t,
     total_orders |-> avg.total_sum \div avg.count,
     human_orders |-> avg.human_sum \div avg.count,
     bot_orders   |-> (avg.total_sum - avg.human_sum) \div avg.count,
     human_ratio  |-> [num |-> avg.human_sum, den |-> avg.total_sum]]

\* db::MarketAnalysisRecord from the averages; `as i64` truncates
MarketAnalysisRecord(symbol, avg, t) ==
    [symbol       |-> symbol,
     timestamp    |-> t,
     total_orders |-> avg.total_sum \div avg.count,
     human_orders |-> avg.human_sum \div avg.count,
     bot_orders   |-> (avg.total_sum - avg.human_sum) \div avg.count,
     human_ratio  |-> IF avg.total_sum > 0
                      THEN [num |-> avg.human_sum, den |-> avg.total_sum]
                      ELSE [num |-> 0, den |-> 1]]

\* the record that insert_analysis was invoked at time t, or never
Invoked(t) == [some |-> TRUE, at |-> t]
NeverInvoked == [some |-> FALSE, at |-> 0]

\* variant: the timer is reset only when the insert succeeds
FlushResetOnSuccess(symbol, avg, flush, insert_ok) ==
    /\ db' = IF flush /\ insert_ok
             THEN Append(db, MarketAnalysisRecord(symbol, avg, now))
             ELSE db
    /\ last_db_write' = IF flush /\ insert_ok THEN now ELSE last_db_write
    /\ last_flush' = IF flush THEN Invoked(now) ELSE last_flush
    /\ last_call' = [op  |-> "analyze_market",
                     arg |-> IF ~flush THEN "no flush"
                             ELSE IF insert_ok THEN "inserted" ELSE "insert failed"]

\* "Write to database every 5 seconds using averaged data"; insert_ok:
\* whether db.insert_analysis returns Ok
Flush(symbol, avg, flush, insert_ok) ==
    /\ db' = IF flush /\ insert_ok
             THEN Append(db, MarketAnalysisRecord(symbol, avg, now))
             ELSE db
    /\ last_db_write' = IF flush THEN now ELSE last_db_write
    /\ last_flush' = IF flush THEN Invoked(now) ELSE last_flush
    /\ last_call' = [op  |-> "analyze_market",
                     arg |-> IF ~flush THEN "no flush"
                             ELSE IF insert_ok THEN "inserted" ELSE "insert failed"]

\* variant: the flush waits until more than 5 seconds have passed
AveragedAfterMore(symbol, avg, insert_ok) ==
    Flush(symbol, avg, now - last_db_write > FlushSecs /\ avg.some, insert_ok)

Averaged(symbol, avg, insert_ok) ==
    Flush(symbol, avg, now - last_db_write >= FlushSecs /\ avg.some, insert_ok)

Buffered(symbol, buffers, insert_ok) ==
    /\ analysis_buffer' = buffers
    /\ Averaged(symbol, calculate_average_analysis(buffers, symbol), insert_ok)

\* what analyze_market saw for the symbol at time t
Observation(symbol, t, result) ==
    [symbol |-> symbol,
     sample |-> Sample(t, result.total_orders, result.likely_human_orders)]

\* the observations made up to 5 seconds before t
Recent(log, t) == SelectSeq(log, LAMBDA o : t - o.sample.timestamp <= WindowSecs)

Analyzed(symbol, result, insert_ok) ==
    /\ analysis' = result
    /\ observed' = Recent(Append(observed, Observation(symbol, now, result)), now)
    /\ Buffered(symbol,
                update_analysis_buffer(analysis_buffer, symbol, result.total_orders,
                                       result.likely_human_orders, now),
                insert_ok)

AnalyzeBook(symbol, insert_ok) ==
    IF symbol # NoKey
    THEN Analyzed(symbol, Classify(order_books[symbol]), insert_ok)
    ELSE /\ analysis' = DefaultAnalysis
         /\ last_call' = [op |-> "analyze_market", arg |-> "no book"]
         /\ UNCHANGED <<analysis_buffer, db, last_db_write, cycle_log>>

analyze_market(insert_ok) == AnalyzeBook(BookKey(order_books, current_symbol), insert_ok)

AnalyzeMarket(insert_ok) ==
    /\ budget > 0
    /\ analyze_market(insert_ok)
    /\ UNCHANGED <<order_books, current_symbol, message_history, keys, now>>
    /\ UNCHANGED <<returned, connector, pipeline>>
    /\ budget' = budget - 1

\* a private helper of analyze_market called on its own: it reads the book of
\* the current symbol and changes nothing of App
Helper(op, result) ==
    /\ returned' = result
    /\ last_call' = [op |-> op, arg |-> "none"]
    /\ UNCHANGED <<order_books, current_symbol, message_history, last_db_write,
                   analysis_buffer, db, keys, now, analysis, budget, connector,
                   pipeline, cycle_log>>

\* `if let Some(order_book) = self.order_books.get(&self.current_symbol)`
CurrentBook(key) == IF key # NoKey THEN order_books[key] ELSE [bids |-> <<>>, asks |-> <<>>]

AnalyzeRoundNumbers ==
    Helper("analyze_round_numbers",
           analyze_round_numbers(CurrentBook(BookKey(order_books, current_symbol))))

AnalyzeOrderSizes ==
    Helper("analyze_order_sizes",
           analyze_order_sizes(CurrentBook(BookKey(order_books, current_symbol))))

\* calculate_average_analysis called on its own for a symbol
CalculateAverageAnalysis(symbol) ==
    Helper("calculate_average_analysis",
           [symbol |-> symbol, value |-> calculate_average_analysis(analysis_buffer, symbol)])

-----------------------------------------------------------------------------
(* next_symbol *)

\* symbols.iter().position(..): 0 when current is not among the keys
Position(symbols, current) ==
    IF \E i \in DOMAIN symbols : symbols[i] = current
    THEN CHOOSE i \in DOMAIN symbols :
            symbols[i] = current /\ \A j \in 1..(i - 1) : symbols[j] # current
    ELSE 0

\* variant: the last symbol has no successor
AdvanceWithoutWrap(pos) ==
    current_symbol' = IF pos # 0 /\ pos < Len(keys) THEN keys[pos + 1] ELSE current_symbol

Advance(pos) ==
    current_symbol' = IF pos # 0 THEN keys[(pos % Len(keys)) + 1] ELSE current_symbol

next_symbol == Advance(Position(keys, current_symbol))

NextSymbol ==
    /\ budget > 0
    /\ next_symbol
    /\ UNCHANGED <<order_books, message_history, last_db_write, analysis_buffer,
                   db, keys, now, analysis>>
    /\ UNCHANGED <<returned, connector, pipeline, cycle_log>>
    /\ last_call' = [op |-> "next_symbol", arg |-> "none"]
    /\ budget' = budget - 1

-----------------------------------------------------------------------------
(* the clock *)

Tick(d) ==
    /\ budget > 0
    /\ now' = now + d
    /\ UNCHANGED <<order_books, current_symbol, message_history, last_db_write,
                   analysis_buffer, db, keys, analysis>>
    /\ UNCHANGED <<returned, connector, pipeline, cycle_log>>
    /\ last_call' = [op |-> "tick", arg |-> "none"]
    /\ budget' = budget - 1

-----------------------------------------------------------------------------
(* The feed connector: run_websocket, connect_and_stream,                  *)
(* fetch_initial_snapshot.  A step runs the task from the await it is      *)
(* suspended in to its next await.                                         *)

RECONNECT_DELAY == 5
\* "no updates for 10 seconds"
StaleSecs == 10
\* mpsc::channel(32)
ChannelCapacity == 32

WebSocketState(last_update, reconnect_attempts, snapshot_received) ==
    [last_update        |-> last_update,
     reconnect_attempts |-> reconnect_attempts,
     snapshot_received  |-> snapshot_received]

NoEvent == JNull

\* the await the task is suspended in: connect_async ("connect"),
\* fetch_initial_snapshot of SYMBOLS[i] ("fetch"), tx.send of event, a
\* snapshot of SYMBOLS[i] or with i = 0 a stream update ("send"),
\* read.next ("read"), sleep ("sleep"); "panicked" once the task has
\* panicked; since: the time the await began
Await(at, i, event, since) == [at |-> at, i |-> i, event |-> event, since |-> since]

\* 1.5f64.powi(n), kept as (3/2)^n
Powi(n) == [num |-> 3, den |-> 2, exp |-> n]

\* a Duration of secs seconds times a factor
Duration(secs, factor) == [secs |-> secs, factor |-> factor]

NoDelay == Duration(0, Powi(0))

\* Duration::mul_f64 panics when the product overflows Duration, that is
\* when it reaches 2^64 seconds.  5 * 1.5^105 is about 1.54e19 and
\* 5 * 1.5^106 about 2.31e19, with 2^64 about 1.84e19 between them: 106 is
\* the least exponent for which RECONNECT_DELAY.mul_f64(1.5^n) panics.
OverflowAttempts == 106

MulOverflows(factor) == factor.exp >= OverflowAttempts

\* what an await returned when only Ok or Err matters
Outcome(result) == [result |-> result]

\* the record of a connector step: the await that returned, what it
\* returned, and whether connect_and_stream is still running or how it ended
Step(op, input, cycle) ==
    last_call' = [op |-> op, arg |-> [input |-> input, cycle |-> cycle]]

\* variant: the delay doubles with every attempt
BackoffFactorDoubling(attempts) == [num |-> 2, den |-> 1, exp |-> attempts]

\* 1.5f64.powi(state.reconnect_attempts as i32)
BackoffFactor(attempts) == Powi(attempts)

\* "Exponential backoff for reconnection": the delay and the sleep, or the
\* panic of mul_f64
Backoff(factor) ==
    IF MulOverflows(factor)
    THEN /\ pc' = Await("panicked", 0, NoEvent, now)
         /\ UNCHANGED delay
    ELSE /\ delay' = Duration(RECONNECT_DELAY, factor)
         /\ pc' = Await("sleep", 0, NoEvent, now)

Counted(st) ==
    /\ state' = st
    /\ Backoff(BackoffFactor(st.reconnect_attempts))

\* connect_and_stream has returned Ok (ok) or Err: the match of run_websocket
\* and the backoff after it
Returned(st, ok, op, input) ==
    /\ Counted([st EXCEPT !.reconnect_attempts = IF ok THEN 0 ELSE @ + 1])
    /\ Step(op, input, IF ok THEN "Ok" ELSE "Err")

\* connect_and_stream goes on to its next await
Continue(st, next, op, input) ==
    /\ state' = st
    /\ pc' = next
    /\ Step(op, input, "running")
    /\ UNCHANGED delay

\* what a connector step leaves alone
ConnectorFrame ==
    UNCHANGED <<order_books, current_symbol, message_history, last_db_write,
                analysis_buffer, db, keys, now, analysis, returned,
                consumer, applied, cycle_log>>

\* connect_async(&url).await returns Ok
ConnectOk ==
    /\ pc.at = "connect"
    /\ Continue(state, Await("fetch", 1, NoEvent, now), "connect_async", Outcome("Ok"))
    /\ cycles' = cycles + 1
    /\ UNCHANGED <<channel, emitted>>
    /\ ConnectorFrame

\* connect_async(&url).await? returns Err
ConnectErr ==
    /\ pc.at = "connect"
    /\ Returned(state, FALSE, "connect_async", Outcome("Err"))
    /\ cycles' = cycles + 1
    /\ UNCHANGED <<channel, emitted>>
    /\ ConnectorFrame

\* the json!({..}) of fetch_initial_snapshot
Snapshot(symbol, response) ==
    [symbol |-> JStr(to_uppercase(symbol)), bids |-> response.bids, asks |-> response.asks]

\* fetch_initial_snapshot(symbol).await returns Ok of the response's fields
FetchOk(response) ==
    /\ pc.at = "fetch"
    /\ Continue(state, Await("send", pc.i, Snapshot(SYMBOLS[pc.i], response), now),
                "fetch_initial_snapshot", response)
    /\ UNCHANGED <<channel, cycles, emitted>>
    /\ ConnectorFrame

\* fetch_initial_snapshot(symbol).await? returns Err
FetchErr ==
    /\ pc.at = "fetch"
    /\ Returned(state, FALSE, "fetch_initial_snapshot", Outcome("Err"))
    /\ UNCHANGED <<channel, cycles, emitted>>
    /\ ConnectorFrame

\* "Check for stale connection (no updates for 10 seconds)"
StaleCheck(st, op, input) ==
    IF now - st.last_update > StaleSecs
    THEN Returned(st, FALSE, op, input)
    ELSE Continue(st, Await("read", 0, NoEvent, now), op, input)

\* variant: the stream loop is entered before the last symbol's snapshot
SentBeforeLastSnapshot(i, event) ==
    IF i = 0
    THEN StaleCheck(state, "send", event)
    ELSE IF i < Len(SYMBOLS) - 1
         THEN Continue(state, Await("fetch", i + 1, NoEvent, now), "send", event)
         ELSE Continue([state EXCEPT !.snapshot_received = TRUE],
                       Await("read", 0, NoEvent, now), "send", event)

\* after tx.send(..).await: the next snapshot, the stream, or the stale
\* check that ends the turn of the stream loop
Sent(i, event) ==
    IF i = 0
    THEN StaleCheck(state, "send", event)
    ELSE IF i < Len(SYMBOLS)
         THEN Continue(state, Await("fetch", i + 1, NoEvent, now), "send", event)
         ELSE Continue([state EXCEPT !.snapshot_received = TRUE],
                       Await("read", 0, NoEvent, now), "send", event)

\* the record of an event sent: the cycle that sent it, the snapshot's place
\* in SYMBOLS (0 for a stream update) and the event
Emission(cycle, i, event) == [cycle |-> cycle, i |-> i, event |-> event]

\* variant: an event that finds the channel full is dropped (try_send)
SendDropping ==
    /\ pc.at = "send"
    /\ channel' = IF Len(channel) < ChannelCapacity THEN Append(channel, pc.event) ELSE channel
    /\ emitted' = Append(emitted, Emission(cycles, pc.i, pc.event))
    /\ UNCHANGED cycles
    /\ Sent(pc.i, pc.event)
    /\ ConnectorFrame

\* tx.send(event).await returns once the channel has room (the receiver
\* lives as long as the process, so it returns Ok)
Send ==
    /\ pc.at = "send"
    /\ Len(channel) < ChannelCapacity
    /\ channel' = Append(channel, pc.event)
    /\ emitted' = Append(emitted, Emission(cycles, pc.i, pc.event))
    /\ UNCHANGED cycles
    /\ Sent(pc.i, pc.event)
    /\ ConnectorFrame

\* data["s"].as_str().unwrap_or("UNKNOWN").to_uppercase()
StreamSymbol(s) == to_uppercase(IF IsStr(s) THEN s.str ELSE "UNKNOWN")

\* the json!({..}) sent for a stream message with a "data" member
Transformed(data) ==
    [symbol |-> JStr(StreamSymbol(data.s)), bids |-> data.b, asks |-> data.a]

\* Message::Text(text): serde_json::from_str(&text)? and response.get("data")
Text(st, msg) ==
    IF ~msg.parses
    THEN Returned(st, FALSE, "next", msg)
    ELSE IF msg.has_data
         THEN Continue(st, Await("send", 0, Transformed(msg.data), now), "next", msg)
         ELSE StaleCheck(st, "next", msg)

\* the body of the stream loop for Some(msg), from `match msg?`
Matched(st, msg) ==
    CASE msg.type = "error" -> Returned(st, FALSE, "next", msg)
      [] msg.type = "text"  -> Text(st, msg)
      [] msg.type = "close" -> Returned(st, TRUE, "next", msg)
      [] OTHER              -> StaleCheck(st, "next", msg)

\* read.next().await returns: None ends the loop, Some(msg) stamps
\* last_update and is matched
Read(msg) ==
    /\ pc.at = "read"
    /\ IF msg.type = "end"
       THEN Returned(state, TRUE, "next", msg)
       ELSE Matched([state EXCEPT !.last_update = now], msg)
    /\ UNCHANGED <<channel, cycles, emitted>>
    /\ ConnectorFrame

\* sleep(delay).await returns
Wake ==
    /\ pc.at = "sleep"
    /\ Continue(state, Await("connect", 0, NoEvent, now), "sleep", delay)
    /\ UNCHANGED <<channel, cycles, emitted>>
    /\ ConnectorFrame

-----------------------------------------------------------------------------
(* main's loop: the user's key, the drain of the channel, the draw.  The   *)
(* app it owns is binance_ws::App (main.rs 3 and 54), so the               *)
(* app.analyze_market() of ui::draw is App::analyze_market of lib.rs.      *)

\* what main's loop leaves alone
ConsumerFrame == UNCHANGED <<keys, now, returned, state, pc, delay, cycles, emitted>>

\* event::poll(100 ms) and event::read(): 'q' breaks the loop, 'n' calls
\* next_symbol, any other key or no key does nothing
Poll(key) ==
    /\ consumer = "poll"
    /\ consumer' = IF key = "q" THEN "quit" ELSE "recv"
    /\ IF key = "n" THEN next_symbol ELSE UNCHANGED current_symbol
    /\ last_call' = [op |-> "poll", arg |-> key]
    /\ UNCHANGED <<order_books, message_history, last_db_write, analysis_buffer, db,
                   analysis, channel, applied, cycle_log>>
    /\ ConsumerFrame

\* rx.try_recv() returns Ok(result): app.update_orders(&result)
Received(result) ==
    /\ update_orders(result)
    /\ channel' = Tail(channel)
    /\ applied' = Append(applied, result)
    /\ last_call' = [op |-> "update_orders", arg |-> result]
    /\ UNCHANGED consumer

\* rx.try_recv() returns Err(TryRecvError::Empty): the while loop ends
RecvEmpty ==
    /\ consumer' = "draw"
    /\ last_call' = [op |-> "try_recv", arg |-> "Empty"]
    /\ UNCHANGED <<order_books, message_history, channel, applied>>

\* variant: one update is taken from the channel in a turn of the loop
TryRecvOnce ==
    /\ consumer = "recv"
    /\ IF channel # <<>>
       THEN /\ update_orders(Head(channel))
            /\ channel' = Tail(channel)
            /\ applied' = Append(applied, Head(channel))
            /\ last_call' = [op |-> "update_orders", arg |-> Head(channel)]
            /\ consumer' = "draw"
       ELSE RecvEmpty
    /\ UNCHANGED <<current_symbol, last_db_write, analysis_buffer, db, analysis, cycle_log>>
    /\ ConsumerFrame

\* one turn of `while let Ok(result) = rx.try_recv()`
TryRecv ==
    /\ consumer = "recv"
    /\ IF channel # <<>> THEN Received(Head(channel)) ELSE RecvEmpty
    /\ UNCHANGED <<current_symbol, last_db_write, analysis_buffer, db, analysis, cycle_log>>
    /\ ConsumerFrame

\* terminal.draw(|f| ui::draw(f, &mut app)): "Add analysis section"
Draw(insert_ok) ==
    /\ consumer = "draw"
    /\ analyze_market(insert_ok)
    /\ consumer' = "poll"
    /\ UNCHANGED <<order_books, current_symbol, message_history, channel, applied>>
    /\ ConsumerFrame

\* a step of the environment that the exploration counts
Counting(A) == budget > 0 /\ budget' = budget - 1 /\ A

\* a step that is not counted
Free(A) == UNCHANGED budget /\ A

\* a send while fewer than MaxEmitted events have been sent
Capped(A) == Len(emitted) < MaxEmitted /\ A

-----------------------------------------------------------------------------
(* Inputs *)

P50000   == <<"5", "0", "0", "0", "0", ".", "0">>
P49999   == <<"4", "9", "9", "9", "9", ".", "3", "7">>
P50001   == <<"5", "0", "0", "0", "1", ".", "0">>
P50002   == <<"5", "0", "0", "0", "2", ".", "9", "1">>
Q5       == <<"5">>
Q3       == <<"3", ".", "3">>
Q2       == <<"2">>
Q7       == <<"7", ".", "7", "7">>
Q123     == <<"1", "2", "3", ".", "3">>
Garbage  == <<"n", "/", "a">>
Empty    == <<>>

\* one [price, quantity] element of a bids or asks array
Level(price, quantity) == JArr(<<JStr(price), JStr(quantity)>>)

\* the book of the end-to-end scenario
ScenarioBids == <<Level(P50000, Q5), Level(P49999, Q3)>>
ScenarioAsks == <<Level(P50001, Q2), Level(P50002, Q7)>>

\* the symbol field of an update: two of the store's symbols, a spelling
\* that is no key of the store, and a missing field
SymbolFields == {JStr("BTCUSDT"), JStr("ETHUSDT"), JStr("btcusdt"), JNull}

\* the bids and asks fields of the updates explored in Spec
DepthFields ==
    { [bids |-> JArr(<<Level(P49999, Q3), Level(Garbage, Q2), Level(P50000, Q5)>>),
       asks |-> JArr(<<Level(P50002, Q7), Level(P50001, Q2)>>)],
      [bids |-> JArr(<<Level(P50000, Q5)>>),
       asks |-> JNull],
      [bids |-> JArr(<<JArr(<<JNull, JStr(Q5)>>), Level(P49999, Q123)>>),
       asks |-> JArr(<<Level(P50001, Q2), Level(Empty, Q5), Level(P50001, Q7)>>)],
      [bids |-> JArr(<<>>),
       asks |-> JArr(<<>>)] }

Updates ==
    { [symbol |-> sym, bids |-> d.bids, asks |-> d.asks] :
        sym \in SymbolFields, d \in DepthFields }

\* the levels a classified book is drawn from
BidLevels == {Level(P50000, Q5), Level(P49999, Q3), Level(Garbage, Q2), Level(P49999, Garbage)}
AskLevels == {Level(P50001, Q2), Level(P50002, Q7), Level(Empty, Q5), Level(P50000, Q123)}

RECURSIVE SeqsUpTo(_, _)
SeqsUpTo(S, n) ==
    IF n = 0 THEN {<<>>}
    ELSE SeqsUpTo(S, n - 1)
         \cup {Append(q, x) : q \in {r \in SeqsUpTo(S, n - 1) : Len(r) = n - 1}, x \in S}

ClassifyUpdates ==
    { [symbol |-> JStr("BTCUSDT"), bids |-> JArr(b), asks |-> JArr(a)] :
        b \in SeqsUpTo(BidLevels, MaxLevels), a \in SeqsUpTo(AskLevels, MaxLevels) }

\* the price and quantity strings the two string heuristics are explored on
Price50000            == <<"5", "0", "0", "0", "0", ".", "0", "0">>
Price49123            == <<"4", "9", "1", "2", "3", ".", "3", "7">>
PriceHalf             == <<"4", "9", "1", "2", "3", ".", "5">>
PriceQuarter          == <<"4", "9", "1", "2", "3", ".", "2", "5">>
PriceHundreds         == <<"4", "9", "1", "0", "0", ".", "3", "7">>
PriceFiveHundreds     == <<"4", "9", "5", "0", "0", ".", "3", "7">>
PriceThousands        == <<"4", "8", "0", "0", "0", ".", "3", "7">>
PriceThreeQuarters    == <<"4", "9", "1", "2", "3", ".", "7", "5">>
PriceBelowOne         == <<"0", ".", "3", "7">>
PriceWhole            == <<"4", "9", "1", "2", "3">>
Quantity7             == <<"7">>
Quantity123           == <<"1", "2", "3", ".", "3">>
QuantityFives         == <<"1", "2", "5", ".", "3">>
QuantityHalf          == <<"1", "1", ".", "5">>
QuantityQuarter       == <<"1", "1", ".", "2", "5">>
QuantityWhole         == <<"1", "2">>
QuantityEleven        == <<"1", "1", ".", "3">>
QuantityTen           == <<"1", "0", ".", "9">>
QuantityThreeQuarters == <<"1", "1", ".", "7", "5">>

HeuristicPrices ==
    {Price50000, Price49123, PriceHalf, PriceQuarter,
     PriceHundreds, PriceFiveHundreds, PriceThousands, PriceThreeQuarters,
     PriceBelowOne, PriceWhole, Garbage}

HeuristicQuantities ==
    {Quantity7, Quantity123, QuantityFives, QuantityHalf,
     QuantityQuarter, QuantityWhole, QuantityEleven, QuantityTen,
     QuantityThreeQuarters, Garbage}

\* a book of one bid, alone or under the ask ("49123.37", "123.3")
HeuristicUpdates ==
    { [symbol |-> JStr("BTCUSDT"), bids |-> JArr(<<Level(p, q)>>), asks |-> JArr(a)] :
        p \in HeuristicPrices, q \in HeuristicQuantities,
        a \in {<<>>, <<Level(Price49123, Quantity123)>>} }

\* the books the aggregation window is explored on: the empty book, one bid,
\* and the book of the end-to-end scenario
WindowUpdates ==
    { [symbol |-> JStr("BTCUSDT"), bids |-> JArr(d[1]), asks |-> JArr(d[2])] :
        d \in { <<<<>>, <<>>>>,
                <<<<Level(P50000, Q5)>>, <<>>>>,
                <<ScenarioBids, ScenarioAsks>> } }

\* the steps of the clock between classification cycles in SpecWindow
WindowTickSteps == {1, 4}

\* the symbols calculate_average_analysis is called for on its own
AveragedSymbols == {"BTCUSDT", "ETHUSDT"}

\* what the depth endpoint answers: a book, or a body without bids and asks
SnapshotBook == [bids |-> JArr(<<Level(P50000, Q5)>>), asks |-> JArr(<<Level(P50001, Q2)>>)]
SnapshotRefusal == [bids |-> JNull, asks |-> JNull]

\* what the stream yields: the end of the stream, a transport error, a
\* close frame, a ping, a text frame that is no JSON, a JSON text without
\* "data", and depth updates with and without the symbol field
Frame(type) == [type |-> type, parses |-> FALSE, has_data |-> FALSE, data |-> JNull]
TextFrame(has_data, data) ==
    [type |-> "text", parses |-> TRUE, has_data |-> has_data, data |-> data]
DepthUpdate(s) ==
    TextFrame(TRUE, [s |-> s, b |-> JArr(<<Level(P49999, Q3)>>), a |-> JArr(<<>>)])

StreamItems ==
    {Frame("end"), Frame("error"), Frame("close"), Frame("ping"), Frame("text"),
     TextFrame(FALSE, JNull), DepthUpdate(JStr("BTCUSDT")), DepthUpdate(JNull)}

\* the steps of the clock while the connector runs
ConnectorTickSteps == {6}

TickSteps == {1, 5}

-----------------------------------------------------------------------------
(* App::new and the specifications *)

StoreKeys == {to_uppercase(SYMBOLS[i]) : i \in DOMAIN SYMBOLS}

NewBook(t) == [bids |-> <<>>, asks |-> <<>>, last_update |-> t, persistent_orders |-> <<>>]

\* HashMap iteration order is arbitrary but fixed while the map keeps its
\* keys; next_symbol only reads the cyclic order, so the orders that start
\* at BTCUSDT are all of them
KeyOrders ==
    {k \in [1..Len(SYMBOLS) -> StoreKeys] :
        k[1] = "BTCUSDT" /\ \A i, j \in DOMAIN k : i # j => k[i] # k[j]}

\* run_websocket's state before its loop, and the channel main creates
NewConnector ==
    /\ state = WebSocketState(0, 0, FALSE)
    /\ pc = Await("connect", 0, NoEvent, 0)
    /\ delay = NoDelay
    /\ channel = <<>>
    /\ cycles = 0
    /\ emitted = <<>>
    /\ consumer = "poll"
    /\ applied = <<>>

\* no private helper has been called and no insert has been attempted
NoneReturned == returned = <<>> /\ last_flush = NeverInvoked /\ observed = <<>>

New ==
    /\ NewConnector
    /\ NoneReturned
    /\ order_books = [s \in StoreKeys |-> NewBook(0)]
    /\ current_symbol = "BTCUSDT"
    /\ message_history = <<>>
    /\ db = <<>>
    /\ last_db_write = 0
    /\ analysis_buffer = <<>>
    /\ now = 0
    /\ analysis = DefaultAnalysis
    /\ last_call = [op |-> "new", arg |-> "none"]

Init ==
    /\ New
    /\ keys \in KeyOrders
    /\ budget = MaxCalls

Next ==
    \/ \E result \in Updates : UpdateOrders(result)
    \/ \E insert_ok \in BOOLEAN : AnalyzeMarket(insert_ok)
    \/ NextSymbol
    \/ \E d \in TickSteps : Tick(d)

Spec == Init /\ [][Next]_vars

\* a book of the current symbol drawn by one update_orders on App::new
Drawn(result, book) ==
    /\ order_books = [s \in StoreKeys |-> IF s = "BTCUSDT" THEN book ELSE NewBook(0)]
    /\ message_history = HistoryAfter(<<>>, "BTCUSDT", book, 0)
    /\ last_call = [op |-> "update_orders", arg |-> result]

InitClassify ==
    /\ NewConnector
    /\ NoneReturned
    /\ \E result \in ClassifyUpdates : Drawn(result, UpdatedBook(NewBook(0), result, 0))
    /\ current_symbol = "BTCUSDT"
    /\ db = <<>>
    /\ last_db_write = 0
    /\ analysis_buffer = <<>>
    /\ now = 0
    /\ analysis = DefaultAnalysis
    /\ keys = [i \in DOMAIN SYMBOLS |-> to_uppercase(SYMBOLS[i])]
    /\ budget = MaxClassifyCalls

NextClassify ==
    \/ \E insert_ok \in BOOLEAN : AnalyzeMarket(insert_ok)
    \/ \E d \in TickSteps : Tick(d)

SpecClassify == InitClassify /\ [][NextClassify]_vars

\* the two string heuristics, each called on its own on a drawn book
InitHeuristics ==
    /\ NewConnector
    /\ NoneReturned
    /\ \E result \in HeuristicUpdates : Drawn(result, UpdatedBook(NewBook(0), result, 0))
    /\ current_symbol = "BTCUSDT"
    /\ db = <<>>
    /\ last_db_write = 0
    /\ analysis_buffer = <<>>
    /\ now = 0
    /\ analysis = DefaultAnalysis
    /\ keys = [i \in DOMAIN SYMBOLS |-> to_uppercase(SYMBOLS[i])]
    /\ budget = 0

NextHeuristics ==
    \/ AnalyzeRoundNumbers
    \/ AnalyzeOrderSizes

SpecHeuristics == InitHeuristics /\ [][NextHeuristics]_vars

\* classification cycles on one book while the clock advances
InitWindow ==
    /\ NewConnector
    /\ NoneReturned
    /\ \E result \in WindowUpdates : Drawn(result, UpdatedBook(NewBook(0), result, 0))
    /\ current_symbol = "BTCUSDT"
    /\ db = <<>>
    /\ last_db_write = 0
    /\ analysis_buffer = <<>>
    /\ now = 0
    /\ analysis = DefaultAnalysis
    /\ keys = [i \in DOMAIN SYMBOLS |-> to_uppercase(SYMBOLS[i])]
    /\ budget = MaxWindowCalls

NextWindow ==
    \/ \E insert_ok \in BOOLEAN : AnalyzeMarket(insert_ok)
    \/ \E d \in WindowTickSteps : Tick(d)
    \/ \E symbol \in AveragedSymbols : CalculateAverageAnalysis(symbol)

SpecWindow == InitWindow /\ [][NextWindow]_vars

\* the update between the classification cycles of SpecRecords: the book of the
\* end-to-end scenario, for the symbol shown at start-up
RecordUpdates ==
    { [symbol |-> JStr("BTCUSDT"), bids |-> JArr(ScenarioBids), asks |-> JArr(ScenarioAsks)] }

\* the steps of the clock in SpecRecords
RecordTickSteps == {2, 5}

\* classification cycles while the books change, the user switches symbols and
\* the clock advances; every insert succeeds (SpecWindow has the failing ones)
InitRecords ==
    /\ New
    /\ keys = [i \in DOMAIN SYMBOLS |-> to_uppercase(SYMBOLS[i])]
    /\ budget = MaxRecordCalls

NextRecords ==
    \/ \E result \in RecordUpdates : UpdateOrders(result)
    \/ AnalyzeMarket(TRUE)
    \/ NextSymbol
    \/ \E d \in RecordTickSteps : Tick(d)

SpecRecords == InitRecords /\ [][NextRecords]_vars

\* the connector task from the start of the program.  The consumer is left
\* out: the channel only grows, and stays below ChannelCapacity within
\* MaxConnectorEvents counted steps.
InitConnector ==
    /\ New
    /\ keys = [i \in DOMAIN SYMBOLS |-> to_uppercase(SYMBOLS[i])]
    /\ budget = MaxConnectorEvents

NextConnector ==
    \/ Free(ConnectOk)
    \/ Counting(ConnectErr)
    \/ Free(FetchOk(SnapshotBook))
    \/ Counting(FetchOk(SnapshotRefusal))
    \/ Counting(FetchErr)
    \/ Free(Send)
    \/ \E msg \in StreamItems : Counting(Read(msg))
    \/ Free(Wake)
    \/ \E d \in ConnectorTickSteps : Tick(d)

SpecConnector == InitConnector /\ [][NextConnector]_vars

\* an await on the network or on the timer returns in the end, and a send on
\* a channel with room completes; nothing makes the peer send a frame
ConnectorFairness ==
    /\ WF_pc(Free(ConnectOk) \/ Counting(ConnectErr))
    /\ WF_pc(Free(FetchOk(SnapshotBook)) \/ Counting(FetchErr))
    /\ WF_pc(Free(Send))
    /\ WF_pc(Free(Wake))

SpecConnectorFair == SpecConnector /\ ConnectorFairness

\* the connector while the network is down: every connection attempt fails
NextOutage ==
    \/ Free(ConnectErr)
    \/ Free(Wake)

SpecOutage ==
    /\ InitConnector
    /\ [][NextOutage]_vars
    /\ WF_pc(Free(ConnectErr))
    /\ WF_pc(Free(Wake))

\* the keys main's loop reads
Keys == {"none", "n", "q", "x"}

\* what the stream yields in SpecConsumer
ConsumedItems == {Frame("close"), DepthUpdate(JStr("BTCUSDT"))}

\* the connector and main's loop from the start of the program
InitConsumer ==
    /\ New
    /\ keys = [i \in DOMAIN SYMBOLS |-> to_uppercase(SYMBOLS[i])]
    /\ budget = MaxConsumerEvents

NextConsumer ==
    \/ Free(ConnectOk)
    \/ Free(FetchOk(SnapshotBook))
    \/ Free(Send)
    \/ \E msg \in ConsumedItems : Counting(Read(msg))
    \/ Free(Wake)
    \/ \E key \in Keys : Counting(Poll(key))
    \/ Free(TryRecv)
    \/ \E insert_ok \in BOOLEAN : Free(Draw(insert_ok))

SpecConsumer == InitConsumer /\ [][NextConsumer]_vars

\* a connection that is closed after its snapshots, again and again, and a
\* main loop that takes a bounded number of turns: the channel fills up
InitChannel ==
    /\ New
    /\ keys = [i \in DOMAIN SYMBOLS |-> to_uppercase(SYMBOLS[i])]
    /\ budget = MaxTurns

NextChannel ==
    \/ Free(ConnectOk)
    \/ Free(FetchOk(SnapshotBook))
    \/ Free(Capped(Send))
    \/ Free(Read(Frame("close")))
    \/ Free(Wake)
    \/ Counting(Poll("none"))
    \/ Free(TryRecv)
    \/ Free(Draw(TRUE))

SpecChannel == InitChannel /\ [][NextChannel]_vars

\* main's loop while the user presses the next-symbol key in every turn and
\* the snapshots of one connection arrive; only the key presses are counted
InitSwitch ==
    /\ New
    /\ keys \in KeyOrders
    /\ budget = MaxSwitches

NextSwitch ==
    \/ Free(ConnectOk)
    \/ Free(FetchOk(SnapshotBook))
    \/ Free(Send)
    \/ Counting(Poll("n"))
    \/ Free(TryRecv)
    \/ Free(Draw(TRUE))

SpecSwitch == InitSwitch /\ [][NextSwitch]_vars

\* the updates of SpecHistory: the older book of BTCUSDT, which only the filled
\* history holds, the newer one with another best bid, an update that leaves
\* the book empty, and one for ETHUSDT
OlderUpdate ==
    [symbol |-> JStr("BTCUSDT"), bids |-> JArr(<<Level(P49999, Q3)>>), asks |-> JArr(<<>>)]
NewerUpdate ==
    [symbol |-> JStr("BTCUSDT"), bids |-> JArr(ScenarioBids), asks |-> JArr(ScenarioAsks)]
HistoryUpdates ==
    {NewerUpdate,
     [symbol |-> JStr("BTCUSDT"), bids |-> JArr(<<>>), asks |-> JArr(<<>>)],
     [symbol |-> JStr("ETHUSDT"), bids |-> JArr(<<>>), asks |-> JArr(ScenarioAsks)]}

\* the message update_orders pushes for the update, applied at time 0
MessageOf(result) ==
    HistoryAfter(<<>>, "BTCUSDT", UpdatedBook(NewBook(0), result, 0), 0)[1]

\* the history after n updates at time 0, none drained yet: OlderUpdate
\* HistoryDrain times, then NewerUpdate
OlderMessage == MessageOf(OlderUpdate)
NewerMessage == MessageOf(NewerUpdate)
FilledHistory(n) ==
    [i \in 1..n |-> IF i <= HistoryDrain THEN OlderMessage ELSE NewerMessage]

\* updates applied to a history that is at its limit or a few messages short
InitHistory ==
    /\ NewConnector
    /\ NoneReturned
    /\ order_books = [s \in StoreKeys |->
                         IF s = "BTCUSDT"
                         THEN UpdatedBook(UpdatedBook(NewBook(0), OlderUpdate, 0), NewerUpdate, 0)
                         ELSE NewBook(0)]
    /\ \E short \in 0..MaxHeadroom : message_history = FilledHistory(HistoryLimit - short)
    /\ last_call = [op |-> "update_orders", arg |-> NewerUpdate]
    /\ current_symbol = "BTCUSDT"
    /\ db = <<>>
    /\ last_db_write = 0
    /\ analysis_buffer = <<>>
    /\ now = 0
    /\ analysis = DefaultAnalysis
    /\ keys = [i \in DOMAIN SYMBOLS |-> to_uppercase(SYMBOLS[i])]
    /\ budget = MaxHistoryCalls

NextHistory ==
    \/ \E result \in HistoryUpdates : UpdateOrders(result)
    \/ Tick(1)

SpecHistory == InitHistory /\ [][NextHistory]_vars

-----------------------------------------------------------------------------
(* Properties of the order book store *)

Called(op) == last_call.op = op

\* the last call was update_orders with a symbol field that is a key of the store
UpdatedKnown ==
    /\ Called("update_orders")
    /\ last_call.arg.symbol.kind = "string"
    /\ last_call.arg.symbol.str \in DOMAIN order_books

UpdatedSymbol == last_call.arg.symbol.str

Parses(s) == ParseF64(s).ok
Value(s) == ParseF64(s).val

Descending(side) ==
    \A i, j \in DOMAIN side :
        (i < j /\ Parses(side[i].price) /\ Parses(side[j].price))
            => Value(side[i].price) >= Value(side[j].price)

Ascending(side) ==
    \A i, j \in DOMAIN side :
        (i < j /\ Parses(side[i].price) /\ Parses(side[j].price))
            => Value(side[i].price) <= Value(side[j].price)

WellFormed(level) ==
    /\ level.kind = "array"
    /\ Len(level.items) >= 2
    /\ level.items[1].kind = "string"
    /\ level.items[2].kind = "string"

Carried(field) ==
    IF field.kind = "array"
    THEN SelectSeq(field.items, WellFormed)
    ELSE <<>>

CountLevel(field, price, quantity) ==
    Cardinality({i \in DOMAIN Carried(field) :
                    /\ Carried(field)[i].items[1].str = price
                    /\ Carried(field)[i].items[2].str = quantity})

CountEntry(side, price, quantity) ==
    Cardinality({i \in DOMAIN side : side[i].price = price /\ side[i].quantity = quantity})

\* side holds the levels of field, each as often as field carries it
ExactlyCarried(side, field) ==
    /\ Len(side) = Len(Carried(field))
    /\ \A i \in DOMAIN side :
          CountEntry(side, side[i].price, side[i].quantity)
              = CountLevel(field, side[i].price, side[i].quantity)

\* C2: right after update_orders for a symbol of the store, that symbol's bids
\* and asks hold exactly the levels the update carries (each as often as it
\* carries it) and nothing of any earlier update.
C2_FullReplace ==
    UpdatedKnown =>
        /\ ExactlyCarried(order_books[UpdatedSymbol].bids, last_call.arg.bids)
        /\ ExactlyCarried(order_books[UpdatedSymbol].asks, last_call.arg.asks)

\* the symbol was updated twice, with different best levels, and the second
\* update has just been applied
C2_Witness ==
    /\ UpdatedKnown
    /\ Len(message_history) = 2
    /\ message_history[1].symbol = UpdatedSymbol
    /\ message_history[2].symbol = UpdatedSymbol
    /\ message_history[1].price # message_history[2].price

Unparsable(side) == {i \in DOMAIN side : ~Parses(side[i].price)}

CarriedUnparsable(field) ==
    {i \in DOMAIN Carried(field) : ~Parses(Carried(field)[i].items[1].str)}

\* the price the sort compares a level by
PriceOrZero(entry) == IF Parses(entry.price) THEN Value(entry.price) ELSE 0

\* every level of field with an unparsable price string is in side, with a
\* zero total, at the place of price 0
KeptAsZero(side, field, descending) ==
    /\ Cardinality(Unparsable(side)) = Cardinality(CarriedUnparsable(field))
    /\ \A i \in Unparsable(side) : side[i].total[1] = 0
    /\ \A i, j \in DOMAIN side :
          i < j => IF descending
                   THEN PriceOrZero(side[i]) >= PriceOrZero(side[j])
                   ELSE PriceOrZero(side[i]) <= PriceOrZero(side[j])

C4_UnknownSymbolIgnored ==
    [][(/\ last_call'.op = "update_orders"
        /\ ~(/\ last_call'.arg.symbol.kind = "string"
             /\ last_call'.arg.symbol.str \in DOMAIN order_books))
       => UNCHANGED app]_vars

\* the lower-case spelling of a symbol that has a filled book was just
\* passed to update_orders, with levels to apply
C4_Witness ==
    /\ Called("update_orders")
    /\ last_call.arg.symbol = JStr("btcusdt")
    /\ Carried(last_call.arg.bids) # <<>>
    /\ order_books["BTCUSDT"].asks # <<>>
    /\ message_history # <<>>

-----------------------------------------------------------------------------
(* Properties of the classifier *)

\* the book analyze_market read, in a state it has just returned in
Book == order_books[current_symbol]
Scores == analysis.confidence_scores

\* C5: every confidence score analyze_market returns is a fraction between 0
\* and 1, both included.
C5_ScoresInUnitInterval ==
    \A p \in DOMAIN Scores :
        /\ Scores[p].den > 0
        /\ 0 <= Scores[p].num
        /\ Scores[p].num <= Scores[p].den

\* analyze_market has returned a score of 1 and a score strictly between 0 and 1
C5_Witness ==
    /\ Called("analyze_market")
    /\ \E p \in DOMAIN Scores : Scores[p].num = Scores[p].den
    /\ \E p \in DOMAIN Scores : 0 < Scores[p].num /\ Scores[p].num < Scores[p].den

\* the places, in bids followed by asks, of the levels that satisfy Test
Places(orders, Test(_)) ==
    SelectSeq([k \in DOMAIN orders |-> k], LAMBDA k : Test(orders[k]))

PriceParses(order) == Parses(order.price)
QuantityParses(order) == Parses(order.quantity)
BothParse(order) == Parses(order.price) /\ Parses(order.quantity)

\* the place of a level is the last of its side
LastOfSide(book, k) == k = Len(book.bids) \/ k = Len(book.bids) + Len(book.asks)

Bool(b) == IF b THEN 1 ELSE 0

\* the round-price and round-size verdicts of a level that are true
TwoHeuristics(order) ==
    Bool(RoundNumber(Value(order.price))) + Bool(HumanLikeSize(Value(order.quantity)))

\* C6 as stated: after analyze_market every level whose price and quantity
\* both parse has a confidence score, and the score of the last level of a
\* side is the share of its round-price and round-size verdicts that are
\* true, out of two.
C6_EveryLevelScored ==
    Called("analyze_market") =>
        \A k \in DOMAIN Chain(Book) :
            BothParse(Chain(Book)[k]) =>
                /\ Chain(Book)[k].price \in DOMAIN Scores
                /\ LastOfSide(Book, k) =>
                      2 * Scores[Chain(Book)[k].price].num
                          = TwoHeuristics(Chain(Book)[k]) * Scores[Chain(Book)[k].price].den

\* the places of the levels analyze_round_numbers and analyze_order_sizes
\* return a verdict for, in the order of their results
PricePlaces(book) == Places(Chain(book), PriceParses)
QuantityPlaces(book) == Places(Chain(book), QuantityParses)

\* a window of two levels of one side starts at place k and both prices parse
StartsWindow(book, k) ==
    /\ k # Len(book.bids)
    /\ k + 1 \in DOMAIN Chain(book)
    /\ Parses(Chain(book)[k].price)
    /\ Parses(Chain(book)[k + 1].price)

\* the places of the first levels of the windows analyze_order_placement
\* returns a verdict for, in the order of its result
WindowPlaces(book) ==
    SelectSeq([k \in DOMAIN Chain(book) |-> k], LAMBDA k : StartsWindow(book, k))

\* C7 as stated: the spacing verdict counted for a scored level is the verdict
\* of the window of its own side that starts at that level.
C7_OwnSpacingVerdict ==
    Called("analyze_market") =>
        \A i \in DOMAIN Combined(Book) : WindowPlaces(Book)[i] = PricePlaces(Book)[i]

\* no level that parses in full has the price string of the level at place k
PriceUnshared(book, k) ==
    \A j \in DOMAIN Chain(book) :
        BothParse(Chain(book)[j]) => Chain(book)[j].price # Chain(book)[k].price

\* C8 as stated: a level whose price or quantity does not parse has no entry
\* in the confidence scores, and every scored level is scored from its own
\* quantity.
C8_UnparsableLevelInert ==
    Called("analyze_market") =>
        /\ \A k \in DOMAIN Chain(Book) :
              (~BothParse(Chain(Book)[k]) /\ PriceUnshared(Book, k))
                  => Chain(Book)[k].price \notin DOMAIN Scores
        /\ \A i \in DOMAIN Combined(Book) :
              QuantityPlaces(Book)[i] = PricePlaces(Book)[i]

\* a scored level, with the share of its indicators that are true
TrueCount(item) == Cardinality({n \in DOMAIN item.indicators : item.indicators[n]})
AboveThreshold(item) == 10 * TrueCount(item) > 6 * Len(item.indicators)
AtMostThreshold(item) == ~AboveThreshold(item)

PricesOf(items) == [i \in DOMAIN items |-> items[i].price]
LabelledPrices(patterns) == [i \in DOMAIN patterns |-> patterns[i][2]]

\* no two scored levels carry the same price string
DistinctPrices(items) ==
    \A i, j \in DOMAIN items : i # j => items[i].price # items[j].price

\* C9: after analyze_market the human-leaning list names, in order, exactly the
\* scored levels whose confidence is above 0.6 and the bot-leaning list exactly
\* the other scored levels, so every scored level is in one list and only one;
\* the list a price's recorded score points to names that price; and, a list
\* naming a level by its price string, no price is named by both lists when
\* the scored levels have distinct price strings.
C9_ThresholdPartition ==
    Called("analyze_market") =>
        /\ LabelledPrices(analysis.human_patterns)
              = PricesOf(SelectSeq(Combined(Book), AboveThreshold))
        /\ LabelledPrices(analysis.bot_patterns)
              = PricesOf(SelectSeq(Combined(Book), AtMostThreshold))
        /\ \A i \in DOMAIN analysis.human_patterns :
              analysis.human_patterns[i][3] = "shows human behavior"
        /\ \A i \in DOMAIN analysis.bot_patterns :
              analysis.bot_patterns[i][3] = "likely automated"
        /\ \A p \in DOMAIN Scores :
              IF 10 * Scores[p].num > 6 * Scores[p].den
              THEN p \in Range(LabelledPrices(analysis.human_patterns))
              ELSE p \in Range(LabelledPrices(analysis.bot_patterns))
        /\ DistinctPrices(Combined(Book)) =>
              Range(LabelledPrices(analysis.human_patterns))
                  \cap Range(LabelledPrices(analysis.bot_patterns)) = {}

\* analyze_market has returned a level in each list
C9_Witness ==
    /\ Called("analyze_market")
    /\ analysis.human_patterns # <<>>
    /\ analysis.bot_patterns # <<>>

\* the book of the end-to-end scenario is the current symbol's
ScenarioBook ==
    /\ Book.bids = PushLevels(<<>>, ScenarioBids)
    /\ Book.asks = PushLevels(<<>>, ScenarioAsks)

\* score a is higher than score b
Higher(a, b) == a.num * b.den > b.num * a.den

\* C10 as stated: analyze_market on the scenario's book reports 4 orders and
\* scores "50000.0" and "50001.0" higher than "49999.37" and "50002.91".
C10_EndToEnd ==
    (Called("analyze_market") /\ ScenarioBook) =>
        /\ analysis.total_orders = 4
        /\ {P50000, P50001, P49999, P50002} \subseteq DOMAIN Scores
        /\ Higher(Scores[P50000], Scores[P49999])
        /\ Higher(Scores[P50000], Scores[P50002])
        /\ Higher(Scores[P50001], Scores[P49999])
        /\ Higher(Scores[P50001], Scores[P50002])

-----------------------------------------------------------------------------
(* Properties of the two string heuristics *)

\* the digits of an unsigned decimal literal before and after its point
IntegerDigits(s) == SubSeq(s, 1, DotAt(s) - 1)
FractionDigits(s) == SubSeq(s, DotAt(s) + 1, Len(s))

\* the integer part of the literal, and whether its fraction is num / den
IntegerPart(s) == DigitsVal(IntegerDigits(s))
FractionIs(s, num, den) ==
    DigitsVal(FractionDigits(s)) * den = num * Pow10(Len(FractionDigits(s)))

\* the fractional part is 0, 0.5 or 0.25
RoundFraction(s) == FractionIs(s, 0, 1) \/ FractionIs(s, 1, 2) \/ FractionIs(s, 1, 4)

\* the round-price heuristic as stated, on a price string that parses
RoundPriceStated(s) ==
    \/ RoundFraction(s)
    \/ IntegerPart(s) % 1000 = 0
    \/ IntegerPart(s) % 500 = 0
    \/ IntegerPart(s) % 100 = 0

\* the round-size heuristic as stated, on a quantity string that parses
RoundSizeStated(s) ==
    \/ RoundFraction(s)
    \/ IntegerPart(s) <= 10
    \/ IntegerPart(s) % 5 = 0

\* the verdicts a heuristic returns when it is Stated on the field of every
\* level whose field parses, in the order of bids followed by asks
StatedVerdicts(orders, field, Stated(_)) ==
    LET parsed == SelectSeq(orders, LAMBDA order : Parses(order[field]))
    IN  [i \in DOMAIN parsed |-> <<parsed[i][field], Stated(parsed[i][field])>>]

\* C11: analyze_round_numbers gives a price true exactly when its fractional
\* part is 0, 0.5 or 0.25 or its integer part is divisible by 1000, 500 or
\* 100; 50000.00 gives true and 49123.37 gives false.
C11_RoundPrice ==
    Called("analyze_round_numbers") =>
        /\ returned = StatedVerdicts(Chain(Book), "price", RoundPriceStated)
        /\ \A i \in DOMAIN returned :
              /\ returned[i][1] = Price50000 => returned[i][2]
              /\ returned[i][1] = Price49123 => ~returned[i][2]

\* analyze_round_numbers has returned true for "50000.00" and false for "49123.37"
C11_Witness ==
    /\ Called("analyze_round_numbers")
    /\ returned = << <<Price50000, TRUE>>, <<Price49123, FALSE>> >>

\* C12: analyze_order_sizes gives a quantity true exactly when its fractional
\* part is 0, 0.5 or 0.25, or its integer part is at most 10, or its integer
\* part is a multiple of 5; 7 gives true and 123.3 gives false.
C12_RoundSize ==
    Called("analyze_order_sizes") =>
        /\ returned = StatedVerdicts(Chain(Book), "quantity", RoundSizeStated)
        /\ \A i \in DOMAIN returned :
              /\ returned[i][1] = Quantity7 => returned[i][2]
              /\ returned[i][1] = Quantity123 => ~returned[i][2]

\* analyze_order_sizes has returned true for "7" and false for "123.3"
C12_Witness ==
    /\ Called("analyze_order_sizes")
    /\ returned = << <<Quantity7, TRUE>>, <<Quantity123, FALSE>> >>

-----------------------------------------------------------------------------
(* Properties of classification cycles and of the aggregation window *)

\* the step is a call of analyze_market
AnalyzeStep == last_call'.op = "analyze_market"

\* analyze_market has run before on the current symbol's book (in SpecWindow
\* no step changes a book or the current symbol, so `analysis` is then its
\* result on the same book contents)
AnalyzedBefore == current_symbol \in DOMAIN analysis_buffer

Window == EntryOrDefault(analysis_buffer, current_symbol)
WindowAfter == analysis_buffer'[current_symbol]

\* the sample lies within the 5-second horizon of time t, bounds included
WithinHorizon(sample, t) == t - 5 <= sample.timestamp /\ sample.timestamp <= t

\* C14 as stated: a cycle at time t appends its sample to the symbol's window
\* and keeps exactly the samples observed in [t-5, t].
C14_WindowHorizon ==
    [][AnalyzeStep =>
          WindowAfter =
              SelectSeq(Append(Window, Sample(now, analysis'.total_orders,
                                              analysis'.likely_human_orders)),
                        LAMBDA sample : WithinHorizon(sample, now))]_vars

\* the window the call was made for
AveragedWindow == EntryOrDefault(analysis_buffer, returned.symbol)

\* the sum over the window of count * x - (sum returned for x): 0 exactly when
\* the returned sum over the returned count is the arithmetic mean of x
RECURSIVE Deviation(_, _, _, _)
Deviation(window, fld, sum, count) ==
    IF window = <<>> THEN 0
    ELSE count * Head(window)[fld] - sum + Deviation(Tail(window), fld, sum, count)

\* C15: calculate_average_analysis returns nothing for a symbol with no
\* window or an empty one, and otherwise the arithmetic means of total_orders
\* and of human_orders over all the samples in the symbol's window.
C15_WindowMean ==
    Called("calculate_average_analysis") =>
        /\ returned.value.some <=> AveragedWindow # <<>>
        /\ returned.value.some =>
              /\ returned.value.count = Len(AveragedWindow)
              /\ Deviation(AveragedWindow, "total_orders",
                           returned.value.total_sum, returned.value.count) = 0
              /\ Deviation(AveragedWindow, "human_orders",
                           returned.value.human_sum, returned.value.count) = 0

\* the means of a window of two different samples have been returned
C15_Witness ==
    /\ Called("calculate_average_analysis")
    /\ returned.value.some
    /\ returned.value.count >= 2
    /\ returned.value.total_sum > 0
    /\ \E i, j \in DOMAIN AveragedWindow :
          AveragedWindow[i].timestamp # AveragedWindow[j].timestamp

\* nothing has been returned for a symbol without a window while another
\* symbol has one
C15_NoWindowReached ==
    /\ Called("calculate_average_analysis")
    /\ ~returned.value.some
    /\ analysis_buffer # <<>>

\* the step appends a record to the database
Inserted == Len(db') = Len(db) + 1
Record == db'[Len(db')]

\* C16: a record built from a window whose average total is 0 has a
\* human_ratio of 0.0 and no division by zero is made; otherwise its
\* human_ratio is the average human count over the average total.
C16_RatioGuard ==
    [][(AnalyzeStep /\ Inserted) =>
          /\ Record.human_ratio.den # 0
          /\ SumOf(WindowAfter, "total_orders") = 0 => Record.human_ratio.num = 0
          /\ SumOf(WindowAfter, "total_orders") # 0 =>
                Record.human_ratio.num * SumOf(WindowAfter, "total_orders")
                    = SumOf(WindowAfter, "human_orders") * Record.human_ratio.den]_vars

\* a record of a window whose totals are all 0 is in the database
C16_Witness ==
    /\ Called("analyze_market")
    /\ last_call.arg = "inserted"
    /\ SumOf(Window, "total_orders") = 0
    /\ db[Len(db)].human_ratio.num = 0

\* the cycle invoked insert
Attempted == last_call'.arg \in {"inserted", "insert failed"}

\* C17: a cycle that invokes insert resets the flush timer whether the insert
\* succeeds or fails; a failed insert writes nothing, the cycle still returns
\* its result, and the next cycle does not try again before the timer runs
\* out; a cycle that does not invoke insert leaves the timer unchanged.
C17_TimerReset ==
    [][AnalyzeStep =>
          /\ Attempted => last_db_write' = now
          /\ ~Attempted => last_db_write' = last_db_write
          /\ last_call'.arg = "insert failed" =>
                db' = db /\ analysis' = Classify(order_books[current_symbol])
          /\ (/\ Called("analyze_market")
              /\ last_call.arg = "insert failed"
              /\ now - last_db_write < FlushSecs) =>
                (~Attempted /\ db' = db)]_vars

\* a cycle has returned without an attempt right after a failed insert
C17_Witness ==
    /\ Called("analyze_market")
    /\ last_call.arg = "no flush"
    /\ last_db_write > 0
    /\ db = <<>>
    /\ Len(Window) >= 2

-----------------------------------------------------------------------------
(* Properties of the feed connector *)

ConnectorOps == {"connect_async", "fetch_initial_snapshot", "send", "next", "sleep"}

\* the step is a connector step in which connect_and_stream returned result
CycleEnds(result) ==
    last_call'.op \in ConnectorOps /\ last_call'.arg.cycle = result

RECURSIVE Pow(_, _)
Pow(b, n) == IF n = 0 THEN 1 ELSE b * Pow(b, n - 1)

\* the duration is 5 s x 1.5^attempt, that is 5 * 3^attempt / 2^attempt seconds
IsBackoffOf(duration, attempt) ==
    duration.secs * Pow(duration.factor.num, duration.factor.exp) * Pow(2, attempt)
        = 5 * Pow(3, attempt) * Pow(duration.factor.den, duration.factor.exp)

\* the duration in hundredths of a second
Hundredths(duration) ==
    (duration.secs * 100 * Pow(duration.factor.num, duration.factor.exp))
        \div Pow(duration.factor.den, duration.factor.exp)

\* C18: the counter of failed cycles goes up by one when a cycle fails, back
\* to 0 when a cycle ends cleanly, and is left alone otherwise; the delay of
\* the sleep that follows a cycle is 5 s x 1.5^counter: 5 s at 0 and 11.25 s
\* at 2.
C18_Backoff ==
    [][/\ CycleEnds("Err") => state'.reconnect_attempts = state.reconnect_attempts + 1
       /\ CycleEnds("Ok") => state'.reconnect_attempts = 0
       /\ ~(CycleEnds("Err") \/ CycleEnds("Ok")) =>
             state'.reconnect_attempts = state.reconnect_attempts
       /\ (CycleEnds("Err") \/ CycleEnds("Ok")) =>
             /\ pc'.at = "sleep"
             /\ IsBackoffOf(delay', state'.reconnect_attempts)
             /\ state'.reconnect_attempts = 0 => Hundredths(delay') = 500
             /\ state'.reconnect_attempts = 2 => Hundredths(delay') = 1125]_vars

\* the connector sleeps 11.25 s after its second failed cycle in a row
C18_Witness ==
    /\ pc.at = "sleep"
    /\ last_call.op \in ConnectorOps
    /\ last_call.arg.cycle = "Err"
    /\ state.reconnect_attempts = 2
    /\ Hundredths(delay) = 1125

\* the connector sleeps 5 s after a clean disconnect that followed a failure
C18_ResetReached ==
    /\ pc.at = "sleep"
    /\ last_call.op \in ConnectorOps
    /\ last_call.arg.cycle = "Ok"
    /\ state.reconnect_attempts = 0
    /\ budget <= MaxConnectorEvents - 2
    /\ Hundredths(delay) = 500

\* connect_and_stream has just returned, with Ok or with Err
CycleOver ==
    /\ last_call.op \in ConnectorOps
    /\ last_call.arg.cycle \in {"Ok", "Err"}

\* C19 as stated: whenever a cycle is over, however it ended and however many
\* cycles failed before it, the connector sleeps and then attempts to connect
\* again: it has no terminal state.
C19_AlwaysRetries == CycleOver ~> (pc.at = "connect")

\* connect_and_stream is in its stream loop
Streaming == pc.at = "read" \/ (pc.at = "send" /\ pc.i = 0)

\* the connector has waited more than 10 seconds for a message
Quiet == pc.at = "read" /\ now - pc.since > StaleSecs

\* C20 as stated: when no message has arrived for 10 seconds while streaming,
\* the connector leaves the streaming state, whether or not a further message
\* arrives.
C20_StaleReconnect == Quiet ~> ~Streaming

\* the stale check has ended a cycle
StaleDetected ==
    /\ last_call.op = "send"
    /\ last_call.arg.cycle = "Err"

\* the frame is a text frame that is no JSON, or a JSON text that lacks the
\* "data" member or one of the fields read from it
Malformed(msg) ==
    /\ msg.type = "text"
    /\ \/ ~msg.parses
       \/ ~msg.has_data
       \/ ~IsStr(msg.data.s)
       \/ ~IsArray(msg.data.b)
       \/ ~IsArray(msg.data.a)

\* the step is read.next().await yielding msg
Reads(msg) ==
    /\ pc.at = "read"
    /\ last_call'.op = "next"
    /\ last_call'.arg.input = msg

\* C21 as stated: a malformed inbound message is dropped: after it the
\* connector waits for the next message with nothing to send, nothing put on
\* the channel and the reconnect counter unchanged.
C21_MalformedDropped ==
    [][\A msg \in StreamItems :
          Reads(msg) /\ Malformed(msg) =>
              /\ pc'.at = "read"
              /\ channel' = channel
              /\ state'.reconnect_attempts = state.reconnect_attempts]_vars

\* a JSON text without "data" has been read and the connector reads on
C21_NoDataSkipped ==
    /\ pc.at = "read"
    /\ last_call.op = "next"
    /\ last_call.arg.input = TextFrame(FALSE, JNull)
    /\ last_call.arg.cycle = "running"

\* the event names a configured symbol in upper case and carries both arrays
WellFormedEvent(event) ==
    /\ IsStr(event.symbol)
    /\ event.symbol.str \in StoreKeys
    /\ IsArray(event.bids)
    /\ IsArray(event.asks)

\* C22 as stated: every event on the channel is a well-formed update: its
\* symbol is the upper-case form of a configured symbol and it carries bid and
\* ask arrays.
C22_WellFormedEvents ==
    \A n \in DOMAIN channel : WellFormedEvent(channel[n])

\* the places in emitted of the events that cycle sent before place n
EarlierOf(cycle, n) == {m \in 1..(n - 1) : emitted[m].cycle = cycle}

\* before place n, its cycle has sent the snapshot of every configured
\* symbol, each once
SnapshotsBefore(n) ==
    \A k \in DOMAIN SYMBOLS :
        Cardinality({m \in EarlierOf(emitted[n].cycle, n) :
                        /\ emitted[m].i = k
                        /\ emitted[m].event.symbol = JStr(to_uppercase(SYMBOLS[k]))}) = 1

\* the snapshot at place n is the first of its symbol in its cycle
FirstOfSymbol(n) ==
    \A m \in EarlierOf(emitted[n].cycle, n) : emitted[m].i # emitted[n].i

\* the step is a snapshot fetch that fails
FetchFails ==
    /\ last_call'.op = "fetch_initial_snapshot"
    /\ last_call'.arg.input = Outcome("Err")

\* C23: in every connection cycle a streaming update is emitted only after
\* exactly one snapshot of every configured symbol has been emitted in that
\* cycle, and a cycle in which a snapshot fetch fails ends there as a failed
\* cycle without having emitted a streaming update.
C23_SnapshotsFirst ==
    /\ [](\A n \in DOMAIN emitted :
            IF emitted[n].i = 0 THEN SnapshotsBefore(n) ELSE FirstOfSymbol(n))
    /\ [][FetchFails =>
            /\ state'.reconnect_attempts = state.reconnect_attempts + 1
            /\ pc'.at = "sleep"
            /\ last_call'.arg.cycle = "Err"
            /\ \A n \in DOMAIN emitted' : emitted'[n].cycle = cycles => emitted'[n].i # 0]_vars

\* a cycle failed at its third snapshot and the next one has emitted a
\* streaming update
C23_Witness ==
    /\ \E n \in DOMAIN emitted : emitted[n].cycle = 2 /\ emitted[n].i = 0
    /\ {emitted[n].i : n \in {m \in DOMAIN emitted : emitted[m].cycle = 1}} = {1, 2}

-----------------------------------------------------------------------------
(* Properties of the channel and of main's loop *)

\* the events of a log of emissions, in order
Events(log) == [n \in DOMAIN log |-> log[n].event]

\* the producer is suspended in tx.send on a full channel
Blocked == pc.at = "send" /\ Len(channel) = ChannelCapacity

\* C24: the channel never holds more than 32 events; a producer that finds it
\* full waits and drops nothing; the events applied by the consumer followed
\* by those still in the channel are the events emitted, each once and in
\* emission order.
C24_BoundedInOrder ==
    /\ [](/\ Len(channel) <= ChannelCapacity
          /\ Events(emitted) = applied \o channel)
    /\ [][Blocked => pc' = pc /\ emitted' = emitted]_vars

\* the producer waits on a full channel after the consumer has applied events
C24_Witness ==
    /\ Blocked
    /\ applied # <<>>

\* the step passes an event to update_orders
Applies == applied' # applied

\* the step runs a classification and aggregation pass
Classifies == last_call'.op = "analyze_market"

\* C25: in a turn of the consumer's loop the drain ends only when the channel
\* is found empty, every event taken from the channel is applied to the store
\* within the drain, the classification and aggregation pass runs once, after
\* the drain, and a drain that finds the channel empty goes on without
\* waiting for the connector.
C25_DrainThenClassify ==
    /\ [][/\ consumer = "recv" /\ consumer' # "recv" =>
                channel = <<>> /\ consumer' = "draw"
          /\ Applies =>
                /\ consumer = "recv" /\ consumer' = "recv"
                /\ applied' = Append(applied, Head(channel))
                /\ channel' = Tail(channel)
                /\ UNCHANGED <<analysis, analysis_buffer, db, last_db_write>>
          /\ Classifies =>
                /\ consumer = "draw" /\ consumer' = "poll"
                /\ UNCHANGED <<order_books, applied, channel>>
          /\ ~Classifies =>
                UNCHANGED <<analysis, analysis_buffer, db, last_db_write>>]_vars
    /\ [](consumer = "recv" /\ channel = <<>> => ENABLED Free(TryRecv))

\* a drain has applied two events in a row and the pass after it has run
\* while the connector had already sent more
C25_Witness ==
    /\ consumer = "poll"
    /\ last_call.op = "analyze_market"
    /\ Len(applied) >= 2
    /\ channel # <<>>
    /\ analysis.total_orders = 2

-----------------------------------------------------------------------------
(* Properties of the flush and of the persisted records *)

\* the time of the previous flush attempt, or of start-up when there was none
PreviousFlush == IF last_flush.some THEN last_flush.at ELSE 0

\* C26: a classification cycle on a symbol with a book invokes insert if and
\* only if at least 5 seconds have passed since insert was last invoked, or
\* since start-up when it never was; so two attempts are at least 5 seconds
\* apart, and a cycle writes at most one record.
C26_FlushEveryFiveSeconds ==
    [][(AnalyzeStep /\ current_symbol \in DOMAIN order_books) =>
          /\ Attempted <=> now - PreviousFlush >= 5
          /\ Attempted /\ last_flush.some => now - last_flush.at >= 5
          /\ Len(db') <= Len(db) + 1
          /\ ~Attempted => db' = db]_vars

\* two records have been written by attempts exactly 5 seconds apart
C26_Witness ==
    /\ Called("analyze_market")
    /\ last_call.arg = "inserted"
    /\ Len(db) = 2
    /\ db[2].timestamp - db[1].timestamp = 5

\* what was observed for the symbol, oldest first
OwnObservations(log, symbol) == SelectSeq(log, LAMBDA o : o.symbol = symbol)

\* the samples of the observations
SamplesOf(log) == [i \in DOMAIN log |-> log[i].sample]

\* the averages of the last n of the samples
MeanOfLast(samples, n) ==
    calculate_average_analysis(
        [s \in {"window"} |-> SubSeq(samples, Len(samples) - n + 1, Len(samples))],
        "window")

\* the record is the one computed from some of the latest of the samples
FromLatest(record, symbol, samples, t) ==
    \E n \in 1..Len(samples) :
        record = MarketAnalysisRecord(symbol, MeanOfLast(samples, n), t)

\* the windows of the other symbols are the same before and after the step
OtherWindowsKept ==
    /\ DOMAIN analysis_buffer' \subseteq DOMAIN analysis_buffer \cup {current_symbol}
    /\ \A s \in DOMAIN analysis_buffer \ {current_symbol} :
          s \in DOMAIN analysis_buffer' /\ analysis_buffer'[s] = analysis_buffer[s]

\* C27: a written record is computed from samples that were observed for its
\* own symbol within the 5 seconds before the flush and from no others, also
\* when the symbol was left and shown again in between; a cycle on one symbol
\* leaves the window of every other symbol as it was.
C27_OwnRecentSamples ==
    [][(AnalyzeStep /\ current_symbol \in DOMAIN order_books) =>
          /\ OtherWindowsKept
          /\ Inserted => FromLatest(Record, current_symbol,
                                    SamplesOf(OwnObservations(observed', current_symbol)),
                                    now)]_vars

\* a record was written for BTCUSDT after the user went through ETHUSDT, which
\* was classified in between, and returned: the window holds the new sample
\* only, the one taken before leaving being 5 seconds old
C27_Witness ==
    /\ Called("analyze_market")
    /\ last_call.arg = "inserted"
    /\ current_symbol = "BTCUSDT"
    /\ Len(observed) = 3
    /\ observed[1].symbol = "BTCUSDT"
    /\ observed[2].symbol = "ETHUSDT"
    /\ observed[3].symbol = "BTCUSDT"
    /\ now - observed[1].sample.timestamp = 5
    /\ analysis_buffer["BTCUSDT"] = <<observed[3].sample>>
    /\ analysis_buffer["ETHUSDT"] = <<observed[2].sample>>
    /\ db[Len(db)].symbol = "BTCUSDT"

\* C28: in every written record the bot count is the total count less the
\* human count.
C28_CountsConsistent ==
    \A i \in DOMAIN db : db[i].bot_orders = db[i].total_orders - db[i].human_orders

\* the human count is between 0 and the total count
HumanWithinTotal(human, total) == 0 <= human /\ human <= total

\* the fraction is between 0 and 1
InUnitInterval(ratio) == ratio.den > 0 /\ 0 <= ratio.num /\ ratio.num <= ratio.den

\* C29: a classification result never counts more likely-human orders than
\* orders; so the same holds of every sample in every window, and every written
\* record has 0 <= human_orders <= total_orders and a human_ratio in [0, 1].
C29_HumanWithinTotal ==
    /\ HumanWithinTotal(analysis.likely_human_orders, analysis.total_orders)
    /\ \A s \in DOMAIN analysis_buffer : \A i \in DOMAIN analysis_buffer[s] :
          HumanWithinTotal(analysis_buffer[s][i].human_orders,
                           analysis_buffer[s][i].total_orders)
    /\ \A i \in DOMAIN db :
          /\ HumanWithinTotal(db[i].human_orders, db[i].total_orders)
          /\ InUnitInterval(db[i].human_ratio)

\* a record was written for a book of which some orders, and not all, were
\* classified as likely human
C29_Witness ==
    /\ Called("analyze_market")
    /\ analysis.likely_human_orders > 0
    /\ analysis.likely_human_orders < analysis.total_orders
    /\ Len(db) = 1
    /\ db[1].human_orders = analysis.likely_human_orders
    /\ db[1].total_orders = analysis.total_orders
    /\ db[1].human_ratio.num > 0
    /\ db[1].human_ratio.num < db[1].human_ratio.den

-----------------------------------------------------------------------------
(* Properties of the store as a whole *)

\* the step is an update for a symbol the store has
UpdatesKnown ==
    /\ last_call'.op = "update_orders"
    /\ last_call'.arg.symbol.kind = "string"
    /\ last_call'.arg.symbol.str \in DOMAIN order_books

\* the book of the symbol has the same levels and time stamp after the step
BookKept(s) ==
    /\ order_books'[s].bids = order_books[s].bids
    /\ order_books'[s].asks = order_books[s].asks
    /\ order_books'[s].last_update = order_books[s].last_update

\* C30: the store has the same symbols as at construction after every
\* operation, and an update for a symbol of the store leaves the bids, asks and
\* last_update of every other symbol as they were.
C30_OnlyOwnBook ==
    /\ [](DOMAIN order_books = StoreKeys)
    /\ [][UpdatesKnown =>
            \A s \in DOMAIN order_books \ {last_call'.arg.symbol.str} : BookKept(s)]_vars

\* ETHUSDT was just updated, later than BTCUSDT, whose book is still filled
C30_Witness ==
    /\ UpdatedKnown
    /\ UpdatedSymbol = "ETHUSDT"
    /\ order_books["ETHUSDT"].bids # <<>>
    /\ order_books["BTCUSDT"].bids # <<>>
    /\ order_books["ETHUSDT"].last_update > order_books["BTCUSDT"].last_update

-----------------------------------------------------------------------------
(* Properties of next_symbol and of the message history *)

\* the number of next_symbol calls made so far in SpecSwitch
Switches == MaxSwitches - budget

\* C31: whatever updates and classifications come in between, current_symbol
\* is a symbol of the store; the n-th call of next_symbol shows the n-th
\* successor of the start symbol in the store's order, so the symbols shown by
\* as many consecutive calls as there are symbols are all different, and the
\* start symbol is shown again after exactly that many calls and not sooner.
C31_CyclicSymbols ==
    /\ current_symbol \in DOMAIN order_books
    /\ Cardinality({keys[i] : i \in DOMAIN keys}) = Cardinality(DOMAIN order_books)
    /\ current_symbol = keys[(Switches % Cardinality(DOMAIN order_books)) + 1]
    /\ current_symbol = "BTCUSDT" <=> Switches % Cardinality(DOMAIN order_books) = 0

\* the fourth press of the key has brought BTCUSDT back, after the snapshots
\* were applied and a classification was made
C31_Witness ==
    /\ Called("poll")
    /\ last_call.arg = "n"
    /\ Switches = 4
    /\ current_symbol = "BTCUSDT"
    /\ Len(applied) = 4
    /\ analysis.total_orders > 0

\* how many of the oldest messages the step has discarded, if it appended one
Discarded == Len(message_history) + 1 - Len(message_history')

\* the history after the step is the history before it less its oldest
\* messages, followed by one new message
NewestKept ==
    /\ Discarded \in 0..Len(message_history)
    /\ \A i \in 1..(Len(message_history') - 1) :
          message_history'[i] = message_history[i + Discarded]
    /\ message_history'[Len(message_history')].timestamp = now

\* C32: after every update the message history holds at most 10000 messages;
\* an update either leaves it as it is or appends one message, and messages are
\* discarded only when the appended one would exceed the bound, and then from
\* the oldest end.
C32_HistoryBounded ==
    [][last_call'.op = "update_orders" =>
          /\ Len(message_history') <= 10000
          /\ \/ message_history' = message_history
             \/ /\ NewestKept
                /\ Discarded > 0 => Len(message_history) + 1 > 10000]_vars

\* an update has just pushed the 10001st message: the 5000 oldest are gone,
\* the newer ones and the new message are kept
C32_Witness ==
    /\ Called("update_orders")
    /\ now = 1
    /\ Len(message_history) = 5001
    /\ message_history[1] = NewerMessage
    /\ message_history[5000] = NewerMessage
    /\ message_history[5001].timestamp = 1
    /\ message_history[5001].symbol = "ETHUSDT"

=============================================================================
